---- MODULE Spec2Model ----
(***************************************************************************)
(* Playback control of scripts/music_player.py (class MusicPlayer): the    *)
(* object's fields, the mpv processes it spawns, the IPC socket file, and  *)
(* one action per handler the main loop of run() calls.                    *)
(*                                                                         *)
(* Python values are kept as the code uses them: current_song_index is     *)
(* 0-based (songs[i] of the code is songs[i + 1] here), player_process is  *)
(* None or a process id, ipc_socket is None (FALSE) or the one per-pid     *)
(* socket path (TRUE), paused is only ever read for its truth value.       *)
(*                                                                         *)
(* Spec is one instance with its players. SpecLoop is Spec with the loop   *)
(* of run() scheduled fairly. SpecInstances puts two instances side by     *)
(* side and keeps of each only what names its socket: hosts and tmpdir     *)
(* belong to it and stay as they start in Spec.                            *)
(***************************************************************************)
EXTENDS Integers, Sequences, FiniteSets, TLC

VARIABLES
    songs,               \* self.songs: sequence of track ids
    current_song_index,  \* self.current_song_index (0-based)
    shuffle,             \* self.shuffle
    player_process,      \* self.player_process: None or a pid
    ipc_socket,          \* self.ipc_socket is not None
    paused,              \* self.paused (truth value)
    current_song_info,   \* self.current_song_info: NoInfo, ErrorInfo or a track id
    current_playlist,    \* self.current_playlist: "" (None) or a playlist name
    procs,               \* the operating system's view of the spawned players
    sockFile,            \* the socket file /tmp/mpv_music_player_<pid>.sock exists
    app,                 \* where the host process is: running, quit, ...
    last,                \* the handler that ran last, its inputs and what it did
    hosts,               \* the instances of the application run side by side
    tmpdir               \* the socket files in tempfile.gettempdir(), by name

vars == <<songs, current_song_index, shuffle, player_process, ipc_socket, paused,
          current_song_info, current_playlist, procs, sockFile, app, last,
          hosts, tmpdir>>

----------------------------------------------------------------------------
(* Bounds of the model *)

\* tracks of playlist "a"
LenA == 3
\* tracks of playlist "b"
LenB == 2
\* process ids the operating system hands out (a pid is reused once reaped)
MaxProcs == 2
\* process ids the operating system hands to instances of the application
MaxHostPids == 3

----------------------------------------------------------------------------
(* Values *)

None == 0
NoInfo == 0
ErrorInfo == -1

ProcIds == 1..MaxProcs

\* the instances of the application looked at side by side, and their pids
Instances == {1, 2}
HostPids == 1..MaxHostPids

\* an instance that is not running: os.getpid() is pid, ipc_socket is the path
\* ("" for None), player the path its live player was given ("" without one),
\* touched the paths it has connected to or unlinked since it was launched
NoHost == [pid |-> 0, ipc_socket |-> "", player |-> "", touched |-> {}]
PlaylistNames == {"a", "b", "e"}

NoProc == [st |-> "none", track |-> 0, suspended |-> FALSE, pause |-> FALSE]
Zombie == [st |-> "zombie", track |-> 0, suspended |-> FALSE, pause |-> FALSE]
Reaped == [st |-> "reaped", track |-> 0, suspended |-> FALSE, pause |-> FALSE]
NewProc(t) == [st |-> "running", track |-> t, suspended |-> FALSE, pause |-> FALSE]

Min(S) == CHOOSE x \in S : \A y \in S : x <= y

\* list s backwards
Reverse(s) == [i \in 1..Len(s) |-> s[Len(s) + 1 - i]]

\* list s started at each of its places
Rotations(s) ==
    IF s = <<>> THEN {<<>>}
    ELSE { [i \in 1..Len(s) |-> s[((i + k - 1) % Len(s)) + 1]] : k \in 1..Len(s) }

\* return (0, 0, 0)
Zeros == <<0, 0, 0>>

\* the effects of one handler call, reset when a handler starts
NoLog == [spawn |-> "none", sig |-> "none", cmds |-> <<>>, path |-> "none",
          raised |-> "none", reported |-> "none", progress |-> Zeros,
          how |-> "none"]

\* the object and its world as one record, so that handlers compose
Cur == [songs |-> songs, current_song_index |-> current_song_index,
        shuffle |-> shuffle, player_process |-> player_process,
        ipc_socket |-> ipc_socket, paused |-> paused,
        current_song_info |-> current_song_info,
        current_playlist |-> current_playlist,
        procs |-> procs, sockFile |-> sockFile, app |-> app,
        blocked |-> FALSE, log |-> NoLog]

\* Popen.poll() is None
Alive(s) == s.player_process # None /\ s.procs[s.player_process].st = "running"

\* "none", "alive" or "dead": what the handle of s refers to
HandleStatus(s) ==
    IF s.player_process = None THEN "none"
    ELSE IF s.procs[s.player_process].st = "running" THEN "alive" ELSE "dead"

\* Popen.poll(): waitpid(WNOHANG) reaps the child when it has exited
poll(s) ==
    IF s.player_process # None /\ s.procs[s.player_process].st = "zombie"
    THEN [s EXCEPT !.procs[s.player_process] = Reaped]
    ELSE s

\* subprocess._cleanup(), run by every Popen(): a child whose Popen object was
\* dropped unreaped is reaped now; the pid of a reaped child nobody refers to is free
cleanup(s) ==
    [s EXCEPT !.procs = [i \in ProcIds |->
        IF i # s.player_process /\ s.procs[i].st \in {"zombie", "reaped"}
        THEN NoProc ELSE s.procs[i]]]

\* a reaped child that no handle refers to is gone
forget(s) ==
    [s EXCEPT !.procs = [i \in ProcIds |->
        IF i # s.player_process /\ s.procs[i].st = "reaped"
        THEN NoProc ELSE s.procs[i]]]

FreePids(s) == { i \in ProcIds : s.procs[i].st = "none" }

----------------------------------------------------------------------------
(* MusicPlayer.parse_m3u8: the existing files a playlist names, in file order *)

parse_m3u8(name) ==
    IF name = "a" THEN [i \in 1..LenA |-> i]
    ELSE IF name = "b" THEN [i \in 1..LenB |-> LenA + i]
    ELSE <<>>

----------------------------------------------------------------------------
(* MusicPlayer.stop_playback                                               *)
(* graceful: mpv acts on SIGTERM within the wait of 1 s                    *)
(* Path.unlink() removes the socket file; the OSError it raises when the   *)
(* file went away after exists() saw it is swallowed, and the file is gone *)
(* either way                                                              *)
(* log.how: "exited" (the child had ended), "terminate" (it ended on       *)
(* SIGTERM and wait() reaped it) or "kill" (TimeoutExpired, then kill())   *)

\* stop_playback without the kill() of lines 310-312
stop_playback_nokill(s, graceful) ==
    LET p == s.player_process
        s1 == IF p = None THEN s
              ELSE LET pr == s.procs[p]
                       how == IF pr.st # "running" THEN "exited"
                              ELSE IF graceful /\ ~pr.suspended THEN "terminate"
                              ELSE "timeout"
                   IN  [s EXCEPT !.procs[p] = IF how = "timeout" THEN pr ELSE Reaped,
                                 !.player_process = None, !.log.how = how]
        s2 == IF s1.ipc_socket /\ s1.sockFile
              THEN [s1 EXCEPT !.sockFile = FALSE]
              ELSE s1
    IN  forget([s2 EXCEPT !.ipc_socket = FALSE])

\* stop_playback without the unlink() of lines 319-324
stop_playback_nounlink(s, graceful) ==
    LET p == s.player_process
        s1 == IF p = None THEN s
              ELSE LET pr == s.procs[p]
                       how == IF pr.st # "running" THEN "exited"
                              ELSE IF graceful /\ ~pr.suspended THEN "terminate"
                              ELSE "kill"
                   IN  [s EXCEPT !.procs[p] = IF how = "kill" THEN Zombie ELSE Reaped,
                                 !.player_process = None, !.log.how = how]
    IN  forget([s1 EXCEPT !.ipc_socket = FALSE])

\* stop_playback without line 316: the handle stays recorded
stop_playback_keephandle(s, graceful) ==
    LET p == s.player_process
        s1 == IF p = None THEN s
              ELSE LET pr == s.procs[p]
                       how == IF pr.st # "running" THEN "exited"
                              ELSE IF graceful /\ ~pr.suspended THEN "terminate"
                              ELSE "kill"
                   IN  [s EXCEPT !.procs[p] = IF how = "kill" THEN Zombie ELSE Reaped,
                                 !.log.how = how]
        s2 == IF s1.ipc_socket /\ s1.sockFile
              THEN [s1 EXCEPT !.sockFile = FALSE]
              ELSE s1
    IN  forget([s2 EXCEPT !.ipc_socket = FALSE])

stop_playback(s, graceful) ==
    LET p == s.player_process
        s1 == IF p = None THEN s
              ELSE LET pr == s.procs[p]
                       \* terminate() polls first and signals only a child not yet
                       \* reaped; wait(timeout=1) reaps; a suspended child leaves
                       \* SIGTERM pending, the wait times out and kill() ends it;
                       \* no wait() follows kill(), the child is left unreaped
                       how == IF pr.st # "running" THEN "exited"
                              ELSE IF graceful /\ ~pr.suspended THEN "terminate"
                              ELSE "kill"
                   IN  [s EXCEPT !.procs[p] = IF how = "kill" THEN Zombie ELSE Reaped,
                                 !.player_process = None, !.log.how = how]
        s2 == IF s1.ipc_socket /\ s1.sockFile
              THEN [s1 EXCEPT !.sockFile = FALSE]
              ELSE s1
    IN  forget([s2 EXCEPT !.ipc_socket = FALSE])

----------------------------------------------------------------------------
(* MusicPlayer.play_current_song                                           *)
(* spawn: what subprocess.Popen does: "ok", "notfound" (FileNotFoundError) *)
(* or "oserror" (any other OSError, which the handler does not catch)      *)

\* Popen with no handler for FileNotFoundError (lines 295-296 left out)
Popen_uncaught(s, spawn, track) ==
    LET c == cleanup(s)
    IN  IF spawn = "ok"
        THEN IF FreePids(c) = {} THEN [c EXCEPT !.blocked = TRUE]
             ELSE LET pid == Min(FreePids(c))
                  IN  [c EXCEPT !.procs[pid] = NewProc(track),
                                !.player_process = pid,
                                !.log.spawn = "ok"]
        ELSE IF spawn = "notfound"
        THEN [c EXCEPT !.app = "crashed", !.log.spawn = "notfound",
                       !.log.raised = "FileNotFoundError"]
        ELSE [c EXCEPT !.app = "crashed", !.log.spawn = "oserror",
                       !.log.raised = "OSError"]

Popen(s, spawn, track) ==
    LET c == cleanup(s)
    IN  IF spawn = "ok"
        THEN IF FreePids(c) = {} THEN [c EXCEPT !.blocked = TRUE]
             ELSE LET pid == Min(FreePids(c))
                  IN  [c EXCEPT !.procs[pid] = NewProc(track),
                                !.player_process = pid,
                                !.log.spawn = "ok"]
        ELSE IF spawn = "notfound"
        THEN [c EXCEPT !.current_song_info = ErrorInfo, !.log.spawn = "notfound"]
        ELSE [c EXCEPT !.app = "crashed", !.log.spawn = "oserror",
                       !.log.raised = "OSError"]

\* play_current_song without line 274: paused is left as it was
play_current_song_keeppaused(s, graceful, spawn) ==
    IF s.songs = <<>> \/ s.current_song_index >= Len(s.songs) THEN s
    ELSE LET s1 == stop_playback(s, graceful)
             song_path == s1.songs[s1.current_song_index + 1]
             s2 == [s1 EXCEPT !.current_song_info = song_path,
                              !.ipc_socket = TRUE]
         IN  Popen(s2, spawn, song_path)

play_current_song(s, graceful, spawn) ==
    IF s.songs = <<>> \/ s.current_song_index >= Len(s.songs) THEN s
    ELSE LET s1 == stop_playback(s, graceful)
             song_path == s1.songs[s1.current_song_index + 1]
             s2 == [s1 EXCEPT !.current_song_info = song_path,
                              !.paused = FALSE,
                              !.ipc_socket = TRUE]
         IN  Popen(s2, spawn, song_path)

----------------------------------------------------------------------------
(* MusicPlayer.start_playlist, next_song, previous_song, toggle_shuffle    *)

\* start_playlist without line 254
start_playlist_keepindex(s, playlist_name, order, graceful, spawn) ==
    LET s1 == [s EXCEPT !.current_playlist = playlist_name,
                        !.songs = parse_m3u8(playlist_name)]
    IN  IF s1.songs = <<>> THEN s1
        ELSE LET s2 == IF s1.shuffle THEN [s1 EXCEPT !.songs = order] ELSE s1
             IN  play_current_song(s2, graceful, spawn)

start_playlist(s, playlist_name, order, graceful, spawn) ==
    LET s1 == [s EXCEPT !.current_playlist = playlist_name,
                        !.songs = parse_m3u8(playlist_name)]
    IN  IF s1.songs = <<>> THEN s1
        ELSE LET s2 == IF s1.shuffle THEN [s1 EXCEPT !.songs = order] ELSE s1
                 s3 == [s2 EXCEPT !.current_song_index = 0]
             IN  play_current_song(s3, graceful, spawn)

\* next_song that stops at the last track instead of wrapping
next_song_nowrap(s, graceful, spawn) ==
    IF s.songs = <<>> THEN s
    ELSE play_current_song(
             [s EXCEPT !.current_song_index =
                  IF s.current_song_index + 1 < Len(s.songs)
                  THEN s.current_song_index + 1 ELSE s.current_song_index],
             graceful, spawn)

next_song(s, graceful, spawn) ==
    IF s.songs = <<>> THEN s
    ELSE play_current_song(
             [s EXCEPT !.current_song_index = (s.current_song_index + 1) % Len(s.songs)],
             graceful, spawn)

\* previous_song that stops at the first track instead of wrapping
previous_song_nowrap(s, graceful, spawn) ==
    IF s.songs = <<>> THEN s
    ELSE play_current_song(
             [s EXCEPT !.current_song_index =
                  IF s.current_song_index > 0
                  THEN s.current_song_index - 1 ELSE 0],
             graceful, spawn)

previous_song(s, graceful, spawn) ==
    IF s.songs = <<>> THEN s
    ELSE play_current_song(
             [s EXCEPT !.current_song_index = (s.current_song_index - 1) % Len(s.songs)],
             graceful, spawn)

\* self.songs[self.current_song_index + 1:]
Remaining(s) == SubSeq(s.songs, s.current_song_index + 2, Len(s.songs))

\* toggle_shuffle keeping songs[:current_song_index] instead of
\* songs[:current_song_index + 1]: the current song is lost
toggle_shuffle_dropcurrent(s, order) ==
    LET s1 == [s EXCEPT !.shuffle = ~s.shuffle]
    IN  IF s1.songs # <<>> /\ s1.current_song_index < Len(s1.songs)
        THEN LET remaining == Remaining(s1)
             IN  IF remaining # <<>>
                 THEN [s1 EXCEPT !.songs =
                          SubSeq(s1.songs, 1, s1.current_song_index) \o order]
                 ELSE s1
        ELSE s1

\* toggle_shuffle putting the shuffled songs before the ones already played
toggle_shuffle_suffixfirst(s, order) ==
    LET s1 == [s EXCEPT !.shuffle = ~s.shuffle]
    IN  IF s1.songs # <<>> /\ s1.current_song_index < Len(s1.songs)
        THEN LET remaining == Remaining(s1)
             IN  IF remaining # <<>>
                 THEN [s1 EXCEPT !.songs =
                          order \o SubSeq(s1.songs, 1, s1.current_song_index + 1)]
                 ELSE s1
        ELSE s1

\* toggle_shuffle that switches shuffle on instead of negating it
toggle_shuffle_seton(s, order) ==
    LET s1 == [s EXCEPT !.shuffle = TRUE]
    IN  IF s1.songs # <<>> /\ s1.current_song_index < Len(s1.songs)
        THEN LET remaining == Remaining(s1)
             IN  IF remaining # <<>>
                 THEN [s1 EXCEPT !.songs =
                          SubSeq(s1.songs, 1, s1.current_song_index + 1) \o order]
                 ELSE s1
        ELSE s1

\* order: what random.shuffle makes of the songs after the current one
toggle_shuffle(s, order) ==
    LET s1 == [s EXCEPT !.shuffle = ~s.shuffle]
    IN  IF s1.songs # <<>> /\ s1.current_song_index < Len(s1.songs)
        THEN LET remaining == Remaining(s1)
             IN  IF remaining # <<>>
                 THEN [s1 EXCEPT !.songs =
                          SubSeq(s1.songs, 1, s1.current_song_index + 1) \o order]
                 ELSE s1
        ELSE s1

----------------------------------------------------------------------------
(* MusicPlayer.check_player_status *)

\* check_player_status restarting the song that ended instead of the next one
check_player_status_replay(s, graceful, spawn) ==
    IF s.player_process # None
    THEN IF s.procs[s.player_process].st # "running"
         THEN play_current_song(poll(s), graceful, spawn)
         ELSE s
    ELSE s

check_player_status(s, graceful, spawn) ==
    IF s.player_process # None
    THEN IF s.procs[s.player_process].st # "running"
         THEN next_song(poll(s), graceful, spawn)
         ELSE s
    ELSE s

----------------------------------------------------------------------------
(* What the player sends back on the socket                                *)
(* A reply is the bytes of one recv(): its kind says how far decode("utf-8"), *)
(* json.loads and the `in` / [] operators of the handler get with it.      *)

JBool(b) == [t |-> "bool", b |-> b, n |-> 0]
JNum(n) == [t |-> "num", b |-> FALSE, n |-> n]
JNull == [t |-> "null", b |-> FALSE, n |-> 0]
\* a string that is no number, such as "abc"
JStr == [t |-> "str", b |-> FALSE, n |-> 0]
\* a non-empty list
JList == [t |-> "list", b |-> FALSE, n |-> 0]

Reply(k, d) == [kind |-> k, data |-> d]

\* bool(x) of Python
Truthy(d) ==
    IF d.t = "bool" THEN d.b
    ELSE IF d.t = "num" THEN d.n # 0
    ELSE IF d.t = "null" THEN FALSE
    ELSE TRUE

\* what reading reply r raises before its "data" is looked at, "none" if nothing:
\* decode() of bytes that are not UTF-8, json.loads() of text that is not JSON
ParseRaises(r) ==
    IF r.kind = "undecodable" THEN "UnicodeDecodeError"
    ELSE IF r.kind = "nonjson" THEN "JSONDecodeError"
    ELSE "none"

\* `'data' in result`: "yes", "no", or "TypeError" when the JSON value is a number,
\* a boolean or null; a string or a list answers by containment
HasData(r) ==
    IF r.kind = "scalar" THEN "TypeError"
    ELSE IF r.kind \in {"str_data", "list_data", "obj_data"} THEN "yes"
    ELSE "no"

\* `result['data']`: only an object can be indexed by a string
GetDataRaises(r) == IF r.kind = "obj_data" THEN "none" ELSE "TypeError"

BadKinds == {"undecodable", "nonjson", "scalar", "str_plain", "str_data",
             "list_plain", "list_data", "obj_nodata"}

----------------------------------------------------------------------------
(* MusicPlayer.toggle_play_pause                                           *)
(* c.err: where the socket raises an OSError: "connect" (refused), "recv1" *)
(*        (after the cycle command went out), "recv2" (after the read-back *)
(*        went out) or "none"                                              *)
(* c.r1, c.r2: the replies to the cycle command and to the read-back       *)
(* c.race: "none", or the player exits between poll() and send_signal():   *)
(*        "quiet" (send_signal finds it gone and returns) or "raise"       *)
(*        (ProcessLookupError)                                             *)

crash(s, exc) == [s EXCEPT !.app = "crashed", !.log.raised = exc]

flip(s) == [s EXCEPT !.paused = ~s.paused]

\* signal_fallback always sending SIGSTOP
signal_fallback_stoponly(s, race) ==
    LET p == s.player_process
    IN  IF race = "raise"
        THEN [s EXCEPT !.procs[p] = NoProc, !.player_process = None,
                       !.paused = FALSE, !.log.sig = "failed"]
        ELSE IF race = "quiet"
        THEN [s EXCEPT !.procs[p] = Reaped, !.paused = ~s.paused,
                       !.log.sig = "skipped"]
        ELSE [s EXCEPT !.procs[p].suspended = TRUE, !.paused = TRUE,
                       !.log.sig = "SIGSTOP"]

\* lines 384-396 and 432-441: SIGCONT when paused, SIGSTOP when not
signal_fallback(s, race) ==
    LET p == s.player_process
    IN  IF race = "raise"
        THEN [s EXCEPT !.procs[p] = NoProc, !.player_process = None,
                       !.paused = FALSE, !.log.sig = "failed"]
        ELSE IF race = "quiet"
        THEN [s EXCEPT !.procs[p] = Reaped, !.paused = ~s.paused,
                       !.log.sig = "skipped"]
        ELSE IF s.paused
        THEN [s EXCEPT !.procs[p].suspended = FALSE, !.paused = FALSE,
                       !.log.sig = "SIGCONT"]
        ELSE [s EXCEPT !.procs[p].suspended = TRUE, !.paused = TRUE,
                       !.log.sig = "SIGSTOP"]

\* lines 411-427: the cycle reply is parsed, the read-back sent and adopted
readback(s, c) ==
    IF ParseRaises(c.r1) = "JSONDecodeError" THEN flip(s)
    ELSE LET s1 == [s EXCEPT !.log.cmds = <<"cycle", "get_property">>]
         IN  IF c.err = "recv2" THEN signal_fallback(s1, c.race)
             ELSE IF ParseRaises(c.r2) = "UnicodeDecodeError"
             THEN crash(s1, "UnicodeDecodeError")
             ELSE IF ParseRaises(c.r2) = "JSONDecodeError" THEN flip(s1)
             ELSE IF HasData(c.r2) = "TypeError" THEN crash(s1, "TypeError")
             ELSE IF HasData(c.r2) = "yes"
             THEN IF GetDataRaises(c.r2) = "TypeError" THEN crash(s1, "TypeError")
                  ELSE [s1 EXCEPT !.paused = Truthy(c.r2.data),
                                  !.log.reported = c.r2.data.t]
             ELSE flip(s1)

\* toggle_play_pause that goes on signalling a player it has stopped by a signal
toggle_play_pause_sticky(s, c) ==
    LET s0 == poll(s)
        p == s0.player_process
    IN  IF ~Alive(s0) THEN [s0 EXCEPT !.log.path = "notalive"]
        ELSE IF ~s0.ipc_socket \/ ~s0.sockFile \/ s0.procs[p].suspended
        THEN signal_fallback([s0 EXCEPT !.log.path = "nosock"], c.race)
        ELSE IF c.err = "connect"
        THEN signal_fallback([s0 EXCEPT !.log.path = "refused"], c.race)
        ELSE LET s1 == [s0 EXCEPT !.procs[p].pause = ~s0.procs[p].pause,
                                  !.log.path = "channel",
                                  !.log.cmds = <<"cycle">>]
             IN  IF c.err = "recv1" THEN signal_fallback(s1, c.race)
                 ELSE IF ParseRaises(c.r1) = "UnicodeDecodeError"
                 THEN crash(s1, "UnicodeDecodeError")
                 ELSE readback(s1, c)

\* toggle_play_pause that looks only at whether a handle is recorded, not at
\* poll()
toggle_play_pause_nopoll(s, c) ==
    LET p == s.player_process
    IN  IF p = None THEN [s EXCEPT !.log.path = "notalive"]
        ELSE IF ~s.ipc_socket \/ ~s.sockFile
        THEN signal_fallback([s EXCEPT !.log.path = "nosock"], c.race)
        ELSE IF c.err = "connect" \/ ~Alive(s)
        THEN signal_fallback([s EXCEPT !.log.path = "refused"], c.race)
        ELSE IF s.procs[p].suspended
        THEN [s EXCEPT !.app = "hung", !.log.path = "channel",
                       !.log.cmds = <<"cycle">>]
        ELSE LET s1 == [s EXCEPT !.procs[p].pause = ~s.procs[p].pause,
                                 !.log.path = "channel",
                                 !.log.cmds = <<"cycle">>]
             IN  IF c.err = "recv1" THEN signal_fallback(s1, c.race)
                 ELSE IF ParseRaises(c.r1) = "UnicodeDecodeError"
                 THEN crash(s1, "UnicodeDecodeError")
                 ELSE readback(s1, c)

toggle_play_pause(s, c) ==
    LET s0 == poll(s)
        p == s0.player_process
    IN  IF ~Alive(s0) THEN [s0 EXCEPT !.log.path = "notalive"]
        ELSE IF ~s0.ipc_socket \/ ~s0.sockFile
        THEN signal_fallback([s0 EXCEPT !.log.path = "nosock"], c.race)
        ELSE IF c.err = "connect"
        THEN signal_fallback([s0 EXCEPT !.log.path = "refused"], c.race)
        ELSE IF s0.procs[p].suspended
        \* a stopped player has the connection queued and the command unread:
        \* recv() has no timeout and never returns
        THEN [s0 EXCEPT !.app = "hung", !.log.path = "channel",
                        !.log.cmds = <<"cycle">>]
        ELSE LET s1 == [s0 EXCEPT !.procs[p].pause = ~s0.procs[p].pause,
                                  !.log.path = "channel",
                                  !.log.cmds = <<"cycle">>]
             IN  IF c.err = "recv1" THEN signal_fallback(s1, c.race)
                 ELSE IF ParseRaises(c.r1) = "UnicodeDecodeError"
                 THEN crash(s1, "UnicodeDecodeError")
                 ELSE readback(s1, c)

----------------------------------------------------------------------------
(* MusicPlayer.get_progress                                                *)
(* g.err: the socket raises an OSError; g.pos, g.dur: the two replies      *)

\* float(x) raises: "none", "ValueError" (a string that is no number) or
\* "TypeError" (a list)
FloatRaises(d) ==
    IF d.t = "str" THEN "ValueError"
    ELSE IF d.t = "list" THEN "TypeError"
    ELSE "none"

\* float(x) of a number or a boolean
Float(d) == IF d.t = "bool" THEN (IF d.b THEN 1 ELSE 0) ELSE d.n

\* lines 484-488: what extracting the number of reply r raises, "none" if nothing
ExtractRaises(r) ==
    IF HasData(r) = "TypeError" THEN "TypeError"
    ELSE IF HasData(r) = "no" THEN "none"
    ELSE IF GetDataRaises(r) = "TypeError" THEN "TypeError"
    ELSE IF r.data.t = "null" THEN "none"
    ELSE FloatRaises(r.data)

\* the number extracted when nothing is raised; 0 is the initial value
Extract(r) ==
    IF HasData(r) = "yes" /\ r.data.t # "null" THEN Float(r.data) ELSE 0

Max2(a, b) == IF a >= b THEN a ELSE b
Min2(a, b) == IF a <= b THEN a ELSE b

\* the percentage without min and max
Percentage_unclamped(position, duration) == (position * 100) \div duration

\* min(100, max(0, (position / duration) * 100)); the replies the model draws
\* make the quotient a whole number
Percentage(position, duration) ==
    Min2(100, Max2(0, (position * 100) \div duration))

\* get_progress without the os.path.exists test of line 457
get_progress_noexists(s, g) ==
    LET s0 == poll(s)
    IN  IF ~Alive(s0) THEN [s0 EXCEPT !.log.path = "notalive"]
        ELSE IF ~s0.ipc_socket THEN [s0 EXCEPT !.log.path = "nosock"]
        ELSE IF ~s0.sockFile \/ g.err \/ s0.procs[s0.player_process].suspended
        THEN [s0 EXCEPT !.log.path = "channel_error"]
        ELSE LET s2 == [s0 EXCEPT !.log.path = "channel",
                                  !.log.cmds = <<"time-pos", "duration">>]
             IN  IF ExtractRaises(g.pos) # "none" \/ ExtractRaises(g.dur) # "none"
                    \/ ParseRaises(g.pos) # "none" \/ ParseRaises(g.dur) # "none"
                 THEN s2
                 ELSE IF Extract(g.dur) > 0
                 THEN [s2 EXCEPT !.log.progress =
                          <<Extract(g.pos), Extract(g.dur),
                            Percentage(Extract(g.pos), Extract(g.dur))>>]
                 ELSE s2

\* get_progress that adopts the pause state as it asks for the position
get_progress_pausing(s, g) ==
    LET s0 == poll(s)
    IN  IF ~Alive(s0) THEN [s0 EXCEPT !.log.path = "notalive"]
        ELSE IF ~s0.ipc_socket \/ ~s0.sockFile THEN [s0 EXCEPT !.log.path = "nosock"]
        ELSE IF g.err \/ s0.procs[s0.player_process].suspended
        THEN [s0 EXCEPT !.log.path = "channel_error"]
        ELSE [s0 EXCEPT !.paused = s0.procs[s0.player_process].pause,
                        !.log.path = "channel",
                        !.log.cmds = <<"time-pos", "duration">>]

get_progress(s, g) ==
    LET s0 == poll(s)
    IN  IF ~Alive(s0) THEN [s0 EXCEPT !.log.path = "notalive"]
        ELSE IF ~s0.ipc_socket \/ ~s0.sockFile THEN [s0 EXCEPT !.log.path = "nosock"]
        \* settimeout(0.5): a stopped player makes recv() raise socket.timeout
        ELSE IF g.err \/ s0.procs[s0.player_process].suspended
        THEN [s0 EXCEPT !.log.path = "channel_error"]
        ELSE LET s1 == [s0 EXCEPT !.log.path = "channel",
                                  !.log.cmds = <<"time-pos">>]
                 s2 == [s1 EXCEPT !.log.cmds = <<"time-pos", "duration">>]
             IN  IF ParseRaises(g.pos) # "none" THEN s1
                 ELSE IF ParseRaises(g.dur) # "none" THEN s2
                 ELSE IF ExtractRaises(g.pos) = "TypeError" THEN crash(s2, "TypeError")
                 ELSE IF ExtractRaises(g.pos) = "ValueError" THEN s2
                 ELSE IF ExtractRaises(g.dur) = "TypeError" THEN crash(s2, "TypeError")
                 ELSE IF ExtractRaises(g.dur) = "ValueError" THEN s2
                 ELSE LET position == Extract(g.pos)
                          duration == Extract(g.dur)
                      IN  IF duration > 0
                          THEN [s2 EXCEPT !.log.progress =
                                   <<position, duration, Percentage(position, duration)>>]
                          ELSE s2

----------------------------------------------------------------------------
(* The inputs the handlers are given *)

SpawnOutcomes == {"ok", "notfound", "oserror"}

\* the handle's player is running and not stopped by a signal
Responsive == Alive(Cur) /\ ~procs[player_process].suspended

\* the handler gets as far as connect()
Connects == Alive(Cur) /\ ipc_socket /\ sockFile

\* whether mpv acts on SIGTERM in time matters only when there is a player to stop
Gracefuls == IF Alive(Cur) THEN BOOLEAN ELSE {TRUE}

\* what Popen does matters only when there is a song to play
Spawns(tracks) == IF tracks = <<>> THEN {"ok"} ELSE SpawnOutcomes

\* the orders random.shuffle is given to make of list s: the list and its reverse,
\* started at each place. These are all the orders of a list of up to three tracks
Shuffles(s) == Rotations(s) \cup Rotations(Reverse(s))

GoodReply == Reply("obj_data", JNull)

\* the replies to the read-back: a player that answers well reports its pause
\* property, which is `actual`
ReadbackReplies(actual) ==
    { Reply(k, JNull) : k \in BadKinds }
        \cup { Reply("obj_data", d) : d \in {JBool(actual), JNull, JStr} }

CycleReplies == { Reply(k, JNull) : k \in {"undecodable", "nonjson", "scalar"} }
                    \cup {GoodReply}

\* every place of an OSError with every race, every cycle reply with a good
\* read-back, and every read-back after a good cycle reply
ToggleInputs(actual) ==
    { [err |-> e, r1 |-> GoodReply, r2 |-> GoodReply, race |-> r] :
        e \in (IF Connects /\ Responsive THEN {"connect", "recv1", "recv2"}
               ELSE {"connect"}),
        r \in (IF Alive(Cur) THEN {"none", "quiet", "raise"} ELSE {"none"}) }
    \cup { [err |-> "none", r1 |-> a, r2 |-> Reply("obj_data", JBool(actual)),
            race |-> "none"] :
             a \in (IF Connects /\ Responsive THEN CycleReplies ELSE {GoodReply}) }
    \cup { [err |-> "none", r1 |-> GoodReply, r2 |-> b, race |-> "none"] :
             b \in (IF Connects /\ Responsive THEN ReadbackReplies(actual)
                    ELSE {GoodReply}) }

PositionReplies ==
    { Reply(k, JNull) : k \in BadKinds }
        \cup { Reply("obj_data", d) :
                  d \in {JNum(-10), JNum(50), JNum(250), JNull, JStr, JList} }

DurationReplies ==
    { Reply(k, JNull) : k \in BadKinds }
        \cup { Reply("obj_data", d) :
                  d \in {JNum(0), JNum(200), JBool(TRUE), JNull, JStr, JList} }

GoodPosition == Reply("obj_data", JNum(50))
GoodDuration == Reply("obj_data", JNum(200))

\* every reply to one query with a good reply to the other, and every pair of
\* replies that carry a number; one input where the replies are never read
ProgressInputs ==
    IF Connects /\ Responsive
    THEN { [err |-> TRUE, pos |-> GoodPosition, dur |-> GoodDuration] }
         \cup { [err |-> FALSE, pos |-> a, dur |-> GoodDuration] : a \in PositionReplies }
         \cup { [err |-> FALSE, pos |-> GoodPosition, dur |-> b] : b \in DurationReplies }
         \cup { [err |-> FALSE, pos |-> a, dur |-> b] :
                  a \in { r \in PositionReplies : r.data.t = "num" },
                  b \in { r \in DurationReplies : r.data.t = "num" } }
    ELSE { [err |-> FALSE, pos |-> GoodPosition, dur |-> GoodDuration] }

----------------------------------------------------------------------------
(* The state machine *)

Ended == {"quit", "interrupted", "crashed"}

\* when the host process is gone, init reaps the children it leaves behind; the
\* players still running and the socket file stay. After quit and after an
\* interrupt the MusicPlayer object is gone too; after an exception the fields
\* are kept as the raising handler left them
exit_host(s) ==
    IF s.app = "crashed"
    THEN [s EXCEPT !.procs = [i \in ProcIds |->
             IF s.procs[i].st = "running" THEN s.procs[i] ELSE NoProc]]
    ELSE IF s.app \in Ended
    THEN [s EXCEPT !.songs = <<>>, !.current_song_index = 0, !.shuffle = FALSE,
                   !.player_process = None, !.ipc_socket = FALSE, !.paused = FALSE,
                   !.current_song_info = NoInfo, !.current_playlist = "",
                   !.procs = [i \in ProcIds |->
                       IF s.procs[i].st = "running" THEN s.procs[i] ELSE NoProc]]
    ELSE s

Commit(op, r0) ==
    \E r \in {exit_host(r0)} :
        /\ ~r.blocked
        /\ songs' = r.songs
        /\ current_song_index' = r.current_song_index
        /\ shuffle' = r.shuffle
        /\ player_process' = r.player_process
        /\ ipc_socket' = r.ipc_socket
        /\ paused' = r.paused
        /\ current_song_info' = r.current_song_info
        /\ current_playlist' = r.current_playlist
        /\ procs' = r.procs
        /\ sockFile' = r.sockFile
        /\ app' = r.app
        /\ last' = [op |-> op, log |-> r.log]
        /\ UNCHANGED <<hosts, tmpdir>>

Init ==
    /\ songs = <<>>
    /\ current_song_index = 0
    /\ shuffle = FALSE
    /\ player_process = None
    /\ ipc_socket = FALSE
    /\ paused = FALSE
    /\ current_song_info = NoInfo
    /\ current_playlist = ""
    /\ procs = [i \in ProcIds |-> NoProc]
    /\ sockFile = FALSE
    /\ app = "running"
    /\ last = [op |-> "init", log |-> NoLog]
    /\ hosts = [i \in Instances |-> NoHost]
    /\ tmpdir = {}

\* run(), line 703
CheckPlayerStatus ==
    /\ app = "running"
    /\ \E graceful \in Gracefuls,
          spawn \in (IF HandleStatus(Cur) = "dead" THEN Spawns(songs) ELSE {"ok"}) :
           Commit("check_player_status",
                  check_player_status(Cur, graceful, spawn))

\* run(), line 706: draw() asks get_progress() when a song label is shown; an
\* addstr() outside the try blocks raises curses.error on a terminal too small
Draw ==
    /\ app = "running"
    /\ \/ Commit("draw", crash(Cur, "curses.error"))
       \/ /\ current_song_info = NoInfo
          /\ Commit("draw", Cur)
       \/ /\ current_song_info # NoInfo
          /\ \E g \in ProgressInputs : Commit("draw", get_progress(Cur, g))

\* run(), lines 721-723: Enter
StartPlaylist ==
    /\ app = "running"
    /\ \E name \in PlaylistNames, graceful \in Gracefuls :
         \E spawn \in Spawns(parse_m3u8(name)), order \in (IF shuffle THEN Shuffles(parse_m3u8(name))
                        ELSE {parse_m3u8(name)}) :
           Commit("start_playlist",
                  start_playlist(Cur, name, order, graceful, spawn))

\* run(), lines 724-725: s
ToggleShuffle ==
    /\ app = "running"
    /\ \E order \in Shuffles(Remaining(Cur)) :
           Commit("toggle_shuffle", toggle_shuffle(Cur, order))

\* run(), lines 726-727: space
TogglePlayPause ==
    /\ app = "running"
    /\ \E c \in ToggleInputs(IF Alive(Cur) THEN ~procs[player_process].pause
                               ELSE FALSE) :
           Commit("toggle_play_pause", toggle_play_pause(Cur, c))

\* run(), lines 728-729: n
NextSong ==
    /\ app = "running"
    /\ \E graceful \in Gracefuls, spawn \in Spawns(songs) :
           Commit("next_song", next_song(Cur, graceful, spawn))

\* run(), lines 730-731: p
PreviousSong ==
    /\ app = "running"
    /\ \E graceful \in Gracefuls, spawn \in Spawns(songs) :
           Commit("previous_song", previous_song(Cur, graceful, spawn))

\* run(), lines 715-716 and 734: q or ESC leaves the loop, then stop_playback()
Quit ==
    /\ app = "running"
    /\ \E graceful \in Gracefuls :
           Commit("quit",
                  [stop_playback(Cur, graceful) EXCEPT !.app = "quit"])

\* main(), lines 923-927: KeyboardInterrupt leaves run() where it is
Interrupt ==
    /\ app = "running"
    /\ Commit("interrupt", [Cur EXCEPT !.app = "interrupted"])

\* the player ends: the track is over, or mpv crashed; mpv removes its socket
\* when it ends in order
PlayerExits ==
    \E p \in ProcIds, keepSock \in BOOLEAN :
        /\ procs[p].st = "running"
        /\ ~procs[p].suspended
        /\ Commit("player_exits",
                  [Cur EXCEPT !.procs[p] = IF app \in Ended THEN NoProc ELSE Zombie,
                              !.sockFile = IF p = player_process /\ ~keepSock
                                           THEN FALSE ELSE sockFile])

\* mpv binds the socket it was given with --input-ipc-server
PlayerOpensSocket ==
    /\ player_process # None
    /\ procs[player_process].st = "running"
    /\ ~procs[player_process].suspended
    /\ ipc_socket
    /\ ~sockFile
    /\ Commit("player_opens_socket", [Cur EXCEPT !.sockFile = TRUE])

Next ==
    \/ CheckPlayerStatus
    \/ Draw
    \/ StartPlaylist
    \/ ToggleShuffle
    \/ TogglePlayPause
    \/ NextSong
    \/ PreviousSong
    \/ Quit
    \/ Interrupt
    \/ PlayerExits
    \/ PlayerOpensSocket

Spec == Init /\ [][Next]_vars

----------------------------------------------------------------------------
(* Properties *)

\* the players this application started that are running, stopped ones included
Running == { p \in ProcIds : procs[p].st = "running" }

HostUp == app \in {"running", "hung"}

C2_OnePlayer ==
    /\ Cardinality(Running) <= 1
    /\ HostUp => \A p \in Running : p = player_process

\* a track change replaced a player by a new one, the only one running
C2_Witness ==
    /\ last.op = "next_song"
    /\ last.log.spawn = "ok"
    /\ Running = {player_process}

\* C3 as stated: whenever a player is running, the track list is non-empty and the
\* player was started for tracks[current_index]
C3_PlayerPlaysCurrentTrack ==
    app = "running" =>
        \A p \in Running :
            /\ songs # <<>>
            /\ current_song_index < Len(songs)
            /\ procs[p].track = songs[current_song_index + 1]

\* C4: whenever the track list is non-empty, 0 <= current_index < len(tracks)
C4_IndexInRange ==
    songs # <<>> => (0 <= current_song_index /\ current_song_index < Len(songs))

\* previous_song wrapped to the last track of the longer list
C4_Witness ==
    /\ last.op = "previous_song"
    /\ Len(songs) = LenA
    /\ current_song_index = LenA - 1

\* C5 as stated: after start_playlist with an empty resolution no session is
\* loaded and no player is alive
C5_EmptyResolutionIdle ==
    (app = "running" /\ last.op = "start_playlist" /\ songs = <<>>)
        => (Running = {} /\ ~Alive(Cur))

\* C6 as stated: once the host process has ended, by quit, interrupt or an
\* exception, no player it started is running
C6_NoPlayerAfterExit ==
    app \in Ended => Running = {}

\* C7 as stated: no operation waits without bound for the player
C7_NoUnboundedWait ==
    app # "hung"

\* C8 as stated: no reply of the player and no spawn error raises out of
\* toggle_play_pause, get_progress or play_current_song
C8_NoFailureEscapes ==
    app = "crashed" => last.log.raised = "curses.error"

\* C9: toggle_play_pause on a player that is and stays alive, with no socket file
\* or with the connection refused, sends SIGSTOP when paused is false and SIGCONT
\* when it is true, and negates paused
C9_FallbackFlips ==
    [][(/\ last'.op = "toggle_play_pause"
        /\ Alive(Cur)
        /\ procs'[player_process].st = "running"
        /\ (~ipc_socket \/ ~sockFile \/ last'.log.path = "refused"))
        => (/\ last'.log.sig = (IF paused THEN "SIGCONT" ELSE "SIGSTOP")
            /\ procs'[player_process].suspended = ~paused
            /\ paused' = ~paused
            /\ player_process' = player_process
            /\ last'.log.cmds = <<>>)]_vars

\* the socket file was there, the connection was refused, the player was stopped
C9_Witness ==
    /\ last.op = "toggle_play_pause"
    /\ last.log.path = "refused"
    /\ last.log.sig = "SIGSTOP"
    /\ paused
    /\ Alive(Cur) /\ procs[player_process].suspended

\* C10 as stated: when toggle_play_pause reaches the channel and the player
\* answers, the cycle command and the read-back are sent; paused becomes the
\* boolean the read-back reports, and is negated when the read-back is malformed
\* or has no data
C10_ReadBackAdopted ==
    [][(/\ last'.op = "toggle_play_pause"
        /\ last'.log.path = "channel"
        /\ last'.log.sig = "none"
        /\ app' # "hung")
        => (/\ last'.log.cmds = <<"cycle", "get_property">>
            /\ last'.log.reported = "bool"
                => paused' = procs'[player_process].pause
            /\ last'.log.reported = "none" => paused' = ~paused)]_vars

\* a handler called on the state s another handler returned: its log starts empty
Then(s) == [s EXCEPT !.log = NoLog]

\* the input of a toggle_play_pause whose cycle command and read-back both
\* succeed, the read-back reporting the boolean b
RoundTrip(b) == [err |-> "none", r1 |-> GoodReply,
                 r2 |-> Reply("obj_data", JBool(b)), race |-> "none"]

\* C11 as stated: from any state with a live player, two consecutive
\* toggle_play_pause calls whose cycle and read-back both succeed, the player's
\* pause state changed by nothing else, leave paused at its value before the first
C11_TwoRoundTripsRestore ==
    (app = "running" /\ Connects /\ Responsive) =>
        LET actual == procs[player_process].pause
            first == toggle_play_pause(Cur, RoundTrip(~actual))
            second == toggle_play_pause(Then(first), RoundTrip(actual))
        IN  second.paused = paused

\* C12: when a toggle_play_pause call has fallen back to a signal after a channel
\* error (refused connection, or recv failing), the next toggle_play_pause call on
\* a live player whose socket file exists tries the channel first: it connects,
\* and once connected sends the cycle command; it sends no signal when its own
\* round trip succeeds
C12_FallbackNotSticky ==
    [][(/\ last.op = "toggle_play_pause"
        /\ last.log.path \in {"refused", "channel"}
        /\ last.log.sig \in {"SIGSTOP", "SIGCONT"}
        /\ last'.op = "toggle_play_pause"
        /\ Alive(Cur) /\ ipc_socket /\ sockFile)
        => (/\ last'.log.path \in {"refused", "channel"}
            /\ last'.log.path = "channel" => last'.log.cmds # <<>>
            /\ last'.log.reported = "bool" => last'.log.sig = "none")]_vars

\* the channel was tried on a player stopped by SIGSTOP. A stopped player opens no
\* socket, so the socket file was there when the SIGSTOP was sent: the call
\* before this one had tried the channel, failed and signalled
C12_Witness ==
    /\ last.op = "toggle_play_pause"
    /\ last.log.path = "channel"
    /\ last.log.cmds = <<"cycle">>
    /\ app = "hung"
    /\ Alive(Cur) /\ procs[player_process].suspended /\ paused

\* C13: a spawn that fails because the player binary is missing does not end the
\* application, shows the error label and leaves no handle and no player; a
\* next_song called in that state still makes the index (index + 1) mod
\* len(tracks) and attempts the spawn again
C13_MissingBinaryNotFatal ==
    [][/\ last'.log.spawn = "notfound"
            => (/\ app' = "running"
                /\ current_song_info' = ErrorInfo
                /\ player_process' = None
                /\ Running' = {})
       /\ (/\ last'.op = "next_song"
           /\ songs # <<>>
           /\ player_process = None /\ current_song_info = ErrorInfo)
            => (/\ current_song_index' = (current_song_index + 1) % Len(songs)
                /\ last'.log.spawn # "none")]_vars

\* next_song wrapped to the first track and its spawn failed: error label, no
\* handle, application running; one more next_song failing the same way moves on
C13_Witness ==
    /\ last.op = "next_song"
    /\ last.log.spawn = "notfound"
    /\ app = "running"
    /\ current_song_info = ErrorInfo
    /\ player_process = None
    /\ Len(songs) = LenA /\ current_song_index = 0
    /\ next_song(Cur, TRUE, "notfound").current_song_index = 1

\* the call goes through play_current_song with a non-empty track list
Plays ==
    \/ last'.op \in {"next_song", "previous_song"} /\ songs # <<>>
    \/ last'.op = "check_player_status" /\ songs # <<>> /\ HandleStatus(Cur) = "dead"
    \/ last'.op = "start_playlist" /\ songs' # <<>>

\* C14: start_playlist with a non-empty resolution, next_song, previous_song and
\* auto-advance stop the player of the old handle, leave paused false whatever it
\* was and whatever the spawn does, and attempt a spawn; when it succeeds the one
\* running player is the new handle's, started for tracks[current_index]
C14_PlayResetsPaused ==
    [][Plays
        => (/\ paused' = FALSE
            /\ last'.log.spawn # "none"
            /\ player_process # None => last'.log.how # "none"
            /\ last'.log.spawn = "ok"
                => (/\ Running' = {player_process'}
                    /\ procs'[player_process'].track = songs'[current_song_index' + 1]
                    /\ ~procs'[player_process'].suspended)
            /\ last'.log.spawn # "ok"
                => (Running' = {} /\ player_process' = None))]_vars

\* start_playlist had to kill the old player (it was stopped by SIGSTOP, or slow to
\* end), the spawn failed, paused is false
C14_Witness ==
    /\ last.op = "start_playlist"
    /\ last.log.how = "kill"
    /\ last.log.spawn = "notfound"
    /\ ~paused
    /\ player_process = None

\* C15: when stop_playback returns, the player of the handle is not running, also
\* when it did not end on SIGTERM within the wait and was killed; the socket file
\* does not exist; nothing was raised; no handle and no socket path are recorded
C15_StopLeavesNothing ==
    app = "running" =>
        \A graceful \in Gracefuls :
            LET r == stop_playback(Cur, graceful)
            IN  /\ player_process # None => r.procs[player_process].st # "running"
                /\ ~r.sockFile
                /\ r.app = "running"
                /\ r.player_process = None
                /\ ~r.ipc_socket

\* quit ran stop_playback, which had to kill the player: no player is running, no
\* socket file, no handle, no socket path
C15_Witness ==
    /\ last.op = "quit"
    /\ last.log.how = "kill"
    /\ Running = {}
    /\ ~sockFile
    /\ player_process = None
    /\ ~ipc_socket

\* C16: stop_playback called where no handle and no socket path are recorded
\* changes nothing and signals nothing; stop_playback called on the state a
\* stop_playback returned changes nothing
C16_StopIdempotent ==
    \A g1 \in Gracefuls, g2 \in BOOLEAN :
        LET once == Then(stop_playback(Cur, g1))
        IN  /\ stop_playback(once, g2) = once
            /\ (player_process = None /\ ~ipc_socket) => stop_playback(Cur, g1) = Cur

\* quit ran stop_playback, which ended a player by SIGTERM; stopping again in the
\* state it left changes nothing
C16_Witness ==
    /\ last.op = "quit"
    /\ last.log.how = "terminate"
    /\ player_process = None
    /\ ~ipc_socket
    /\ stop_playback(Cur, FALSE) = Cur

\* C17 as stated: when stop_playback drops the handle, its player has been reaped,
\* on the SIGTERM path and on the kill path
C17_StopReaps ==
    app = "running" =>
        \A graceful \in Gracefuls :
            LET r == stop_playback(Cur, graceful)
            IN  player_process # None
                    => r.procs[player_process].st \notin {"running", "zombie"}

\* the spawn outcomes after which a handler returns to the main loop
Returning == {"ok", "notfound"}

\* Gracefuls in state s
GracefulsOf(s) == IF Alive(s) THEN BOOLEAN ELSE {TRUE}

\* the states one call of next_song can return to the main loop from a state of S
NextAll(S) ==
    UNION { { Then(next_song(s, graceful, spawn)) :
                graceful \in GracefulsOf(s), spawn \in Returning } : s \in S }

\* the same for previous_song
PreviousAll(S) ==
    UNION { { Then(previous_song(s, graceful, spawn)) :
                graceful \in GracefulsOf(s), spawn \in Returning } : s \in S }

\* the states k calls of next_song in a row can lead to from a state of S
RECURSIVE NextTimes(_, _)
NextTimes(S, k) == IF k = 0 THEN S ELSE NextAll(NextTimes(S, k - 1))

\* C18: with a non-empty track list of length n, next_song makes the index
\* (index + 1) mod n whatever the spawn does, and n calls of next_song in a row
\* bring the index back to where it was, whether the spawns succeed or fail
C18_WrapAround ==
    (app = "running" /\ songs # <<>>) =>
        /\ \A graceful \in Gracefuls, spawn \in SpawnOutcomes :
             next_song(Cur, graceful, spawn).current_song_index
                 = (current_song_index + 1) % Len(songs)
        /\ \A r \in NextTimes({Cur}, Len(songs)) :
             r.current_song_index = current_song_index /\ r.songs = songs

\* next_song wrapped from the last track of the longer list to the first; as
\* many calls less one lead to the last track again
C18_Witness ==
    /\ last.op = "next_song"
    /\ last.log.spawn = "ok"
    /\ Len(songs) = LenA
    /\ current_song_index = 0
    /\ \A r \in NextTimes({Cur}, LenA - 1) : r.current_song_index = LenA - 1

\* C19: with a non-empty track list, previous_song after next_song and next_song
\* after previous_song leave the index where it was, at index 0 and at the last
\* index too
C19_Inverse ==
    (app = "running" /\ songs # <<>>) =>
        /\ \A r \in PreviousAll(NextAll({Cur})) :
             r.current_song_index = current_song_index
        /\ \A r \in NextAll(PreviousAll({Cur})) :
             r.current_song_index = current_song_index

\* previous_song wrapped from the first track to the last and started a player;
\* next_song from here wraps back to the first
C19_Witness ==
    /\ last.op = "previous_song"
    /\ last.log.spawn = "ok"
    /\ Len(songs) = LenA
    /\ current_song_index = LenA - 1
    /\ next_song(Cur, TRUE, "ok").current_song_index = 0

\* lists a and b hold the same tracks, each as often
SameTracks(a, b) ==
    /\ Len(a) = Len(b)
    /\ \A i \in 1..Len(b) :
         Cardinality({ j \in 1..Len(a) : a[j] = b[i] })
             = Cardinality({ j \in 1..Len(b) : b[j] = b[i] })

\* C20 as stated: after start_playlist with a non-empty resolution the index is 0
\* and a player runs for tracks[0]; with shuffle off the track list is the
\* resolved list; at all times the track list holds the tracks of the resolved list
C20_StartStartsPlayer ==
    /\ SameTracks(songs, parse_m3u8(current_playlist))
    /\ (last.op = "start_playlist" /\ songs # <<>>)
        => (/\ current_song_index = 0
            /\ Alive(Cur)
            /\ procs[player_process].track = songs[1]
            /\ ~shuffle => songs = parse_m3u8(current_playlist))

\* C20 amended: after start_playlist with a non-empty resolution the index is 0
\* and a spawn was attempted for tracks[0]: a player runs for tracks[0] when the
\* spawn succeeded, none when it failed; with shuffle off the track list is the
\* resolved list; at all times the track list holds the tracks of the resolved list
C20_StartLoadsPermutation ==
    /\ SameTracks(songs, parse_m3u8(current_playlist))
    /\ (last.op = "start_playlist" /\ songs # <<>>)
        => (/\ current_song_index = 0
            /\ last.log.spawn # "none"
            /\ last.log.spawn = "ok"
                => (Alive(Cur) /\ procs[player_process].track = songs[1])
            /\ last.log.spawn # "ok" => Running = {}
            /\ ~shuffle => songs = parse_m3u8(current_playlist))

\* start_playlist with shuffle on loaded the longer list in another order and
\* started a player for its first track
C20_Witness ==
    /\ last.op = "start_playlist"
    /\ last.log.spawn = "ok"
    /\ shuffle
    /\ Len(songs) = LenA
    /\ songs # parse_m3u8(current_playlist)
    /\ current_song_index = 0
    /\ Alive(Cur) /\ procs[player_process].track = songs[1]

\* songs[:current_song_index + 1] of state s
Played(s) == SubSeq(s.songs, 1, Min2(s.current_song_index + 1, Len(s.songs)))

\* C21: toggle_shuffle with a session loaded leaves the tracks at indices
\* 0..current_index as they are, re-orders only the tracks after them, and leaves
\* the index, the handle, the players, the socket path and file, and paused alone
C21_ShuffleKeepsHistory ==
    (app = "running" /\ songs # <<>>) =>
        \A order \in Shuffles(Remaining(Cur)) :
            LET r == toggle_shuffle(Cur, order)
            IN  /\ Played(r) = Played(Cur)
                /\ SameTracks(Remaining(r), Remaining(Cur))
                /\ r.current_song_index = current_song_index
                /\ r.player_process = player_process
                /\ r.procs = procs
                /\ r.ipc_socket = ipc_socket
                /\ r.sockFile = sockFile
                /\ r.paused = paused
                /\ r.log = NoLog

\* toggle_shuffle has re-ordered the two tracks after the first of the longer
\* list while the player of the first track, paused, went on
C21_Witness ==
    /\ last.op = "toggle_shuffle"
    /\ current_song_index = 0
    /\ songs = <<1>> \o Reverse(SubSeq(parse_m3u8("a"), 2, LenA))
    /\ Alive(Cur) /\ procs[player_process].track = 1
    /\ paused

\* C22: two toggle_shuffle calls in a row bring the shuffle flag back to what it
\* was, with a session and without one; the tracks up to the current one stay, the
\* ones after it are the same tracks in an order that may be another
C22_ShuffleFlagRestored ==
    \A o1 \in Shuffles(Remaining(Cur)) :
        LET first == toggle_shuffle(Cur, o1)
        IN  /\ first.shuffle = ~shuffle
            /\ \A o2 \in Shuffles(Remaining(first)) :
                 LET second == toggle_shuffle(Then(first), o2)
                 IN  /\ second.shuffle = shuffle
                     /\ Played(second) = Played(Cur)
                     /\ SameTracks(second.songs, songs)

\* shuffle is back off after being switched on and off, no track has been
\* started since, and the tracks after the current one are in another order than
\* the playlist file has them
C22_Witness ==
    /\ last.op = "toggle_shuffle"
    /\ ~shuffle
    /\ current_playlist = "a"
    /\ current_song_index = 0
    /\ songs[1] = 1
    /\ songs # parse_m3u8("a")
    /\ \E o \in Shuffles(Remaining(Cur)) : toggle_shuffle(Cur, o).songs = parse_m3u8("a")

\* a reply whose bytes are the JSON object {"data": d}
Data(d) == Reply("obj_data", d)

\* the replies get_progress is tried with where the channel is never reached
UnreadReplies ==
    { [err |-> e, pos |-> a, dur |-> GoodDuration] : e \in BOOLEAN, a \in PositionReplies }
        \cup { [err |-> e, pos |-> GoodPosition, dur |-> b] :
                  e \in BOOLEAN, b \in DurationReplies }

\* C23: whenever the handle is not alive, no socket path is set or the socket
\* file does not exist, get_progress returns (0, 0, 0) at once: nothing is sent,
\* no connection is made, whatever the player would have answered
C23_NoChannelNoProgress ==
    (app = "running" /\ ~Connects) =>
        \A g \in UnreadReplies :
            LET r == get_progress(Cur, g)
            IN  /\ r.log.progress = Zeros
                /\ r.log.cmds = <<>>
                /\ r.log.path \in {"notalive", "nosock"}
                /\ r.log.path = "notalive" <=> ~Alive(Cur)
                /\ r.log.raised = "none" /\ r.app = "running"

\* the screen was drawn while the player ran with its socket path set and the
\* socket file not there yet, and the progress query did not reach the channel
C23_Witness ==
    /\ last.op = "draw"
    /\ last.log.path = "nosock"
    /\ last.log.cmds = <<>>
    /\ Alive(Cur) /\ ipc_socket /\ ~sockFile

\* the positions and durations C24 is checked with
Positions == {0 - 10, 0, 50, 200, 250}
Durations == {0 - 5, 0, 200}

\* position as a percentage of duration, not below 0 and not above 100
Clamped(position, duration) ==
    IF position <= 0 THEN 0
    ELSE IF position >= duration THEN 100
    ELSE (position * 100) \div duration

\* C24: with both replies numbers, the percentage is position * 100 / duration
\* kept within 0..100 when duration > 0 (50 of 200 is 25, 250 of 200 is 100, a
\* negative position is 0), and the result is (0, 0, 0) when duration <= 0
C24_PercentageClamped ==
    (app = "running" /\ Connects /\ Responsive) =>
        /\ \A p \in Positions, d \in Durations :
             LET r == get_progress(Cur, [err |-> FALSE, pos |-> Data(JNum(p)),
                                         dur |-> Data(JNum(d))])
             IN  /\ d > 0 => r.log.progress = <<p, d, Clamped(p, d)>>
                 /\ d <= 0 => r.log.progress = Zeros
                 /\ r.log.progress[3] \in 0..100
        /\ get_progress(Cur, [err |-> FALSE, pos |-> Data(JNum(50)),
                              dur |-> Data(JNum(200))]).log.progress[3] = 25
        /\ get_progress(Cur, [err |-> FALSE, pos |-> Data(JNum(250)),
                              dur |-> Data(JNum(200))]).log.progress[3] = 100
        /\ get_progress(Cur, [err |-> FALSE, pos |-> Data(JNum(0 - 10)),
                              dur |-> Data(JNum(200))]).log.progress[3] = 0

\* the screen was drawn with the player reporting position 250 of 200
C24_Witness ==
    /\ last.op = "draw"
    /\ last.log.path = "channel"
    /\ last.log.progress = <<250, 200, 100>>

\* reply r is a JSON object without "data", or with data that is null, a string
\* or a list
NoNumber(r) ==
    \/ r.kind = "obj_nodata"
    \/ r.kind = "obj_data" /\ r.data.t \in {"null", "str", "list"}

\* C25: when one of the two replies is an object without data, or with data
\* that is null or not a number, get_progress returns (0, 0, 0), also when only
\* time-pos is unavailable and the duration is a positive number
C25_BadReplyZeros ==
    (app = "running" /\ Connects /\ Responsive) =>
        \A g \in ProgressInputs :
            (~g.err /\ (NoNumber(g.pos) \/ NoNumber(g.dur))) =>
                LET r == get_progress(Cur, g)
                IN  r.log.progress = Zeros /\ r.app = "running"

\* C26: get_progress changes nothing on any of its paths: the track list, the
\* index, shuffle, paused, the handle and the socket path are as before, the
\* socket file stays, and every player's pause property and stopped state stay
\* (poll() reaps a player that has exited, no more)
C26_ProgressReadOnly ==
    app = "running" =>
        \A g \in ProgressInputs :
            LET r == get_progress(Cur, g)
            IN  /\ r.songs = songs
                /\ r.current_song_index = current_song_index
                /\ r.shuffle = shuffle
                /\ r.paused = paused
                /\ r.player_process = player_process
                /\ r.ipc_socket = ipc_socket
                /\ r.sockFile = sockFile
                /\ r.current_song_info = current_song_info
                /\ r.current_playlist = current_playlist
                /\ r.procs = poll(Cur).procs
                /\ r.log.sig = "none" /\ r.log.spawn = "none" /\ r.log.how = "none"
                /\ \A c \in 1..Len(r.log.cmds) : r.log.cmds[c] \in {"time-pos", "duration"}

\* the screen was drawn with the progress of a player whose pause property is
\* set while the paused flag is not: the query left the two as they were
C26_Witness ==
    /\ last.op = "draw"
    /\ last.log.cmds = <<"time-pos", "duration">>
    /\ last.log.progress = <<50, 200, 25>>
    /\ Alive(Cur) /\ procs[player_process].pause /\ ~paused
    /\ shuffle

\* the handle's player is not advancing playback: its pause property is set or
\* it is stopped by SIGSTOP
NotAdvancing == procs[player_process].pause \/ procs[player_process].suspended

\* C29: while a player is alive, paused is true exactly when the player is not
\* advancing playback, after any sequence of toggle_play_pause calls with any
\* mix of channel round trips, malformed replies and signal fallbacks
C29_PausedMatchesPlayer ==
    (app = "running" /\ Alive(Cur)) => (paused <=> NotAdvancing)

\* C30: toggle_play_pause with no handle, or with a handle whose player has
\* exited, changes nothing: paused, the handle, the socket path and file, the
\* track list and the index stay, no signal is sent and no connection is made
\* (poll() reaps the exited player, no more)
C30_ToggleNeedsPlayer ==
    (app = "running" /\ ~Alive(Cur)) =>
        \A c \in ToggleInputs(FALSE) :
            LET r == toggle_play_pause(Cur, c)
            IN  /\ r.paused = paused
                /\ r.player_process = player_process
                /\ r.ipc_socket = ipc_socket
                /\ r.sockFile = sockFile
                /\ r.songs = songs
                /\ r.current_song_index = current_song_index
                /\ r.procs = poll(Cur).procs
                /\ r.app = "running"
                /\ r.log = [NoLog EXCEPT !.path = "notalive"]

\* space was pressed after the player of a loaded session had exited and before
\* the next status check: the handle is still recorded, nothing was sent
C30_Witness ==
    /\ last.op = "toggle_play_pause"
    /\ last.log = [NoLog EXCEPT !.path = "notalive"]
    /\ songs # <<>>
    /\ player_process # None
    /\ procs[player_process].st = "reaped"
    /\ ipc_socket /\ sockFile

----------------------------------------------------------------------------
(* Two instances of the application side by side: what each does with the  *)
(* socket paths in the directory they share. h is an instance, tmp the set *)
(* of socket files that exist.                                             *)

\* the socket path with one name for every instance
Name_shared(pid) == "mpv_music_player.sock"

\* line 278: f"mpv_music_player_{os.getpid()}.sock" in tempfile.gettempdir()
Name(pid) == "mpv_music_player_" \o ToString(pid) \o ".sock"

\* lines 306-325: the player is ended and the file at ipc_socket unlinked
Instance_stop_playback(w) ==
    LET h == w.h
        unlinks == h.ipc_socket # "" /\ h.ipc_socket \in w.tmp
    IN  [h   |-> [h EXCEPT !.player = "", !.ipc_socket = "",
                           !.touched = IF unlinks THEN h.touched \cup {h.ipc_socket}
                                       ELSE h.touched],
         tmp |-> IF unlinks THEN w.tmp \ {h.ipc_socket} ELSE w.tmp]

\* lines 269-292: stop, name the socket after the own pid, hand it to the player
Instance_play_current_song(w) ==
    LET w1 == Instance_stop_playback(w)
        path == Name(w1.h.pid)
    IN  [w1 EXCEPT !.h.ipc_socket = path, !.h.player = path]

\* lines 379-403 and 454-464: connect() to ipc_socket when the player is alive
\* and the file exists
Instance_connect(w) ==
    IF w.h.player # "" /\ w.h.ipc_socket # "" /\ w.h.ipc_socket \in w.tmp
    THEN [w EXCEPT !.h.touched = w.h.touched \cup {w.h.ipc_socket}]
    ELSE w

World(i) == [h |-> hosts[i], tmp |-> tmpdir]

Put(i, w) ==
    /\ hosts' = [hosts EXCEPT ![i] = w.h]
    /\ tmpdir' = w.tmp
    /\ UNCHANGED <<songs, current_song_index, shuffle, player_process, ipc_socket,
                   paused, current_song_info, current_playlist, procs, sockFile,
                   app, last>>

Up(i) == hosts[i].pid # 0

\* main(): the operating system gives a starting process a pid no running
\* process has
Launch(i) ==
    /\ ~Up(i)
    /\ \E pid \in HostPids \ { hosts[j].pid : j \in Instances } :
           Put(i, [h |-> [NoHost EXCEPT !.pid = pid], tmp |-> tmpdir])

\* Enter, n, p, or a track that ended
InstancePlays(i) ==
    /\ Up(i)
    /\ Put(i, Instance_play_current_song(World(i)))

\* space, or the progress bar of draw()
InstanceConnects(i) ==
    /\ Up(i)
    /\ Put(i, Instance_connect(World(i)))

\* q: stop_playback, then the process ends
InstanceQuits(i) ==
    /\ Up(i)
    /\ Put(i, [h |-> NoHost, tmp |-> Instance_stop_playback(World(i)).tmp])

\* an exception or Ctrl-C ends the process where it is: the file stays
InstanceDies(i) ==
    /\ Up(i)
    /\ Put(i, [h |-> NoHost, tmp |-> tmpdir])

\* mpv binds the path it was given with --input-ipc-server
InstancePlayerBinds(i) ==
    /\ Up(i)
    /\ hosts[i].player # ""
    /\ hosts[i].player \notin tmpdir
    /\ Put(i, [h |-> hosts[i], tmp |-> tmpdir \cup {hosts[i].player}])

\* the player ends, removing its socket or leaving it
InstancePlayerExits(i) ==
    /\ Up(i)
    /\ hosts[i].player # ""
    /\ \E keepSock \in BOOLEAN :
           Put(i, [h |-> [hosts[i] EXCEPT !.player = ""],
                   tmp |-> IF keepSock THEN tmpdir ELSE tmpdir \ {hosts[i].player}])

NextInstances ==
    \E i \in Instances :
        \/ Launch(i)
        \/ InstancePlays(i)
        \/ InstanceConnects(i)
        \/ InstanceQuits(i)
        \/ InstanceDies(i)
        \/ InstancePlayerBinds(i)
        \/ InstancePlayerExits(i)

SpecInstances == Init /\ [][NextInstances]_vars

\* the paths instance i uses as its endpoint: the one it holds and the one its
\* player was given
Endpoints(i) == {hosts[i].ipc_socket, hosts[i].player, Name(hosts[i].pid)} \ {""}

\* C27: two instances running at the same time have different socket paths, each
\* made from its own pid, and neither has connected to or unlinked a path that
\* is an endpoint of the other
C27_InstancesApart ==
    \A i \in Instances, j \in Instances :
        (i # j /\ Up(i) /\ Up(j)) =>
            /\ Name(hosts[i].pid) # Name(hosts[j].pid)
            /\ hosts[i].ipc_socket \in {"", Name(hosts[i].pid)}
            /\ hosts[i].player \in {"", hosts[i].ipc_socket}
            /\ Endpoints(i) \cap Endpoints(j) = {}
            /\ hosts[i].touched \cap Endpoints(j) = {}

\* both instances are playing, each player has bound its socket, and each
\* instance has connected to its own
C27_Witness ==
    /\ \A i \in Instances :
         /\ Up(i)
         /\ hosts[i].player # ""
         /\ hosts[i].ipc_socket \in tmpdir
         /\ hosts[i].touched = {hosts[i].ipc_socket}
    /\ Cardinality(tmpdir) >= 2

----------------------------------------------------------------------------
(* The tick loop of run(): check_player_status is called on every pass     *)
(* (line 703), so it is not put off for ever                               *)

SpecLoop == Spec /\ WF_vars(CheckPlayerStatus)

\* what happens without the user: the passes of the loop and the player
TickOps == {"check_player_status", "draw", "player_exits", "player_opens_socket"}

\* the track at index i (0-based) is the one being played
Playing(i) ==
    /\ Alive(Cur)
    /\ i < Len(songs)
    /\ current_song_index = i
    /\ procs[player_process].track = songs[i + 1]

\* the longest track list
MaxLen == Max2(LenA, LenB)

\* C28: once the user has stopped acting with a track list loaded, with a
\* terminal that can be drawn on, a player binary that starts every time and
\* players that all exit in the end, every index of the list is the playing
\* track again and again
C28_EveryTrackPlays ==
    ( /\ <>[](last.op \in TickOps /\ songs # <<>>)
      /\ [](last.log.spawn \in {"none", "ok"})
      /\ [](last.log.raised # "curses.error")
      /\ []<>(~Alive(Cur)) )
    => \A i \in 0..(MaxLen - 1) : []<>(i < Len(songs) => Playing(i))

====
